---- MODULE Spec2Model ----
(***************************************************************************)
(* Himawari data pipeline.                                                 *)
(*   download.py       : main / download_data (SFTP staging of archives)   *)
(*   objective_main.py : HimawariProcessor (grouping, decompression pool)  *)
(* Time is counted in minutes; a remote directory is named by the hour     *)
(* (t \div 60), a file's minute field is (stamp % 60).                     *)
(***************************************************************************)
EXTENDS Integers, Sequences, FiniteSets, TLC

VARIABLES
    \* ---- download.py -------------------------------------------------
    start_dt, end_dt,         \* main: the user's time window
    target_bands,             \* main: selected_bands
    remote,                   \* the archive: hour directory -> listing
    fs,                       \* local data tree: path -> content
    pc,                       \* position of the process in main/download_data
    exc,                      \* exception being propagated to main's handlers
    ipc,                      \* position at which KeyboardInterrupt arrived
    transport, sftp,          \* main: the remote session handles
    exit_req,                 \* status passed to sys.exit inside the try block
    exit_status,              \* status the process exited with
    current_temp_file_path,   \* module global (in-flight register)
    time_points,              \* download_data argument
    ti, files_in_dir, fi,     \* download_data: loop positions
    run,                      \* number of the process run (files persist)
    gets,                     \* history: sftp.get calls of this run
    failed,                   \* history: final paths whose transfer raised
    faults,                   \* history: errors raised by listdir, get, rename, remove
    deleted,                  \* history: paths removed by main's interrupt handler
    returned,                 \* history: download_data returned normally
    unlisted,                 \* history: time points whose listing raised
    overwrote,                \* history: temp paths that existed when get began
    prevClean,                \* history: the previous run staged everything
    \* ---- objective_main.py -------------------------------------------
    tree,                     \* DATA_ROOT_DIR: the archives, in traversal order
    dfs,                      \* DECOMPRESSED_DIR: output name -> content
    max_workers,              \* MAX_DECOMPRESSION_THREADS
    rpc,                      \* position of HimawariProcessor.run
    available_slots,          \* run: slot key -> archives
    slot_keys,                \* prompt_user_selection: the keys, in dict order
    selected_slots, si,       \* run: the chosen keys and the loop position
    bz2_files,                \* decompress_files_multithreaded argument
    tasks,                    \* the executor's futures, one per bz2 file
    results,                  \* decompress_files_multithreaded: archive -> result
    successful_files,         \* run: what process_true_data is called with
    \* ---- download.py, one call of generate_time_range ----------------
    g_start_time, g_end_time, g_interval_minutes,   \* the arguments
    g_pc,                     \* position in generate_time_range
    g_current_time,           \* local current_time
    g_time_range,             \* local time_range
    \* ---- download.py, the filter of download_data on one listed name --
    filename,                 \* the listed name, a string of characters
    time_dt,                  \* the time point being scanned
    f_target_bands,           \* target_bands of the call
    verdict                   \* what the loop body did with the name

gvars == <<g_start_time, g_end_time, g_interval_minutes, g_pc, g_current_time,
           g_time_range>>

fvars == <<filename, time_dt, f_target_bands, verdict>>

(* the variables of the function calls modelled on their own *)
fnvars == <<gvars, fvars>>

(* the variables of main and download_data *)
mainvars == <<start_dt, end_dt, target_bands, remote, fs, pc, exc, ipc,
              transport, sftp, exit_req, exit_status, current_temp_file_path,
              time_points, ti, files_in_dir, fi, run, gets, failed, faults,
              deleted, returned, unlisted, overwrote, prevClean>>

dlvars == <<mainvars, fnvars>>

dcvars == <<tree, dfs, max_workers, rpc, available_slots, slot_keys,
            selected_slots, si, bz2_files, tasks, results, successful_files>>

inputs == <<start_dt, end_dt, target_bands, remote, run, prevClean, dcvars,
            fnvars>>
session == <<transport, sftp>>
loop == <<time_points, ti, files_in_dir, fi>>
hist == <<gets, failed, faults, deleted, returned, unlisted, overwrote>>

vars == <<dlvars, dcvars>>

----------------------------------------------------------------------------
(* Bounds of the model *)
StartTime == 50
MaxEnd == 60
MaxFiles == 2
MaxPre == 1
MaxRuns == 2
MaxFaults == 2
MaxArchives == 2
MaxWorkers == 2
MaxSel == 2
GenMaxStart == 2
GenMaxEnd == 5
GenMaxInterval == 3

(* generate_time_range's default interval_minutes, used by main *)
IntervalMinutes == 10

None == "None"

(* an optional value (a path, an exit status): <<>> is Python's None *)
Nil == <<>>
Some(x) == <<x>>
Val(o) == o[1]

----------------------------------------------------------------------------
(* generate_time_range *)
RECURSIVE TimeLoop(_, _, _, _)
TimeLoop(current_time, end_time, interval, time_range) ==
    IF current_time <= end_time
    THEN TimeLoop(current_time + interval, end_time, interval,
                  Append(time_range, current_time))
    ELSE time_range

generate_time_range(start_time, end_time, interval_minutes) ==
    IF start_time > end_time THEN <<>>
    ELSE TimeLoop(start_time, end_time, interval_minutes, <<>>)

(* extract_date_time_info: the directory (year_month/day/hour) and the minute *)
HourOf(t) == t \div 60
MinuteOf(t) == t % 60

----------------------------------------------------------------------------
(* Remote file names, by what download_data reads from them:               *)
(*   admit : ends with .DAT.bz2, contains _FLDK_, has at least 5 tokens    *)
(*   stamp : parts[2] + parts[3] (date and time tokens)                    *)
(*   band  : the digits of the extracted band token, "" when none is found *)
File(s, b, a) == [stamp |-> s, band |-> b, admit |-> a]

(* the names a remote hour directory may hold, in listing order *)
Catalog(h) ==
    IF h = HourOf(StartTime)
    THEN << File(StartTime, "03", TRUE), File(StartTime, "13", TRUE),
            File(StartTime + 60, "03", TRUE), File(StartTime, "05", TRUE),
            File(StartTime + IntervalMinutes, "03", TRUE),
            File(StartTime, "03", FALSE), File(StartTime, "", TRUE) >>
    ELSE << File(StartTime + IntervalMinutes, "03", TRUE),
            File(StartTime + IntervalMinutes, "05", TRUE) >>

Hours == { HourOf(StartTime), HourOf(StartTime + IntervalMinutes) }

Range(s) == { s[i] : i \in 1..Len(s) }

AllFiles == UNION { Range(Catalog(h)) : h \in Hours }

(* a listing: up to MaxFiles consecutive names of the catalog *)
Listings(h) ==
    { SubSeq(Catalog(h), w[1], w[2]) :
        w \in { v \in (1..Len(Catalog(h))) \X (0..Len(Catalog(h))) :
                  v[2] - v[1] < MaxFiles } }

(* line 35 *)
DEFAULT_TARGET_BANDS == {"01", "02", "03", "04", "08", "07", "13"}

(* get_band_input: the defaults (Enter), or the bands typed in *)
BandSets == { DEFAULT_TARGET_BANDS, {"05"} }

(* Local paths: local_subdir / filename, and the same with ".part" *)
Paths == [dir : Hours, name : AllFiles, part : BOOLEAN]

FinalPathOf(t, f) == [dir |-> HourOf(t), name |-> f, part |-> FALSE]
TempOf(p) == [p EXCEPT !.part = TRUE]

Exists(p) == fs[p] # "absent"

----------------------------------------------------------------------------
(* download_data, lines 159-204: the filter applied to one listed name *)
TimestampOK(f, t) == f.stamp = t \/ MinuteOf(f.stamp) = MinuteOf(t)

(* mutant: the band test of line 203 is lost *)
MatchesAnyBand(f, t, bands) ==
    /\ f.admit
    /\ f.band # ""
    /\ TimestampOK(f, t)

Matches(f, t, bands) ==
    /\ f.admit
    /\ f.band # ""
    /\ TimestampOK(f, t)
    /\ f.band \in bands

----------------------------------------------------------------------------
(* The state a process run starts from (module globals and main's locals) *)
FreshProcess ==
    /\ pc = "main"
    /\ exc = None
    /\ ipc = None
    /\ transport = None
    /\ sftp = None
    /\ exit_req = Nil
    /\ exit_status = Nil
    /\ current_temp_file_path = Nil
    /\ time_points = <<>>
    /\ ti = 0
    /\ files_in_dir = <<>>
    /\ fi = 0
    /\ gets = 0
    /\ failed = {}
    /\ faults = 0
    /\ deleted = {}
    /\ returned = FALSE
    /\ unlisted = {}
    /\ overwrote = {}

(* Files already in the local tree when a run starts: left-overs of earlier *)
(* runs under names the run will look for (download_data reads and writes   *)
(* the paths of matching names only): a final file of any size, a ".part".  *)
Candidates(rem, tps, bands) ==
    { p \in Paths :
        \E t \in Range(tps) :
            /\ p.dir = HourOf(t)
            /\ p.name \in Range(rem[p.dir])
            /\ Matches(p.name, t, bands) }

LeftOvers(p) == IF p.part THEN {"stale"} ELSE {"zero", "stale"}

InitWith(maxPre) ==
    /\ start_dt = StartTime
    /\ end_dt \in { e \in (StartTime - IntervalMinutes)..MaxEnd :
                      (e - StartTime) % IntervalMinutes = 0 }
    /\ target_bands \in BandSets
    /\ LET tps == generate_time_range(start_dt, end_dt, IntervalMinutes)
       IN  /\ \E r0 \in Listings(HourOf(StartTime)) :
              \E r1 \in Listings(HourOf(StartTime + IntervalMinutes)) :
                 remote = [h \in Hours |->
                             IF h \notin { HourOf(t) : t \in Range(tps) } THEN <<>>
                             ELSE IF h = HourOf(StartTime) THEN r0 ELSE r1]
           /\ \E S \in SUBSET Candidates(remote, tps, target_bands) :
                 /\ Cardinality(S) <= maxPre
                 /\ \E c \in [S -> {"zero", "stale"}] :
                       /\ \A p \in S : c[p] \in LeftOvers(p)
                       /\ fs = [p \in Paths |-> IF p \in S THEN c[p] ELSE "absent"]
    /\ run = 1
    /\ prevClean = FALSE
    /\ FreshProcess

InitDL == InitWith(MaxPre)

----------------------------------------------------------------------------
(* main, lines 256-270: inputs, time points, early exit *)
MainStart ==
    /\ pc = "main"
    /\ LET tps == generate_time_range(start_dt, end_dt, IntervalMinutes)
       IN  /\ time_points' = tps
           /\ IF tps = <<>>
              THEN pc' = "exited" /\ exit_status' = Some(0) \* line 270
              ELSE pc' = "mkTransport" /\ UNCHANGED exit_status
    /\ UNCHANGED <<inputs, session, hist, fs, exc, ipc, exit_req,
                   current_temp_file_path, ti, files_in_dir, fi>>

(* an exception leaves the try block for main's handlers *)
Raise(e) ==
    /\ exc' = e
    /\ pc' = "handler"

(* main, line 277: paramiko.Transport((FTP_HOST, FTP_PORT)) *)
MkTransport ==
    /\ pc = "mkTransport"
    /\ \/ transport' = "created" /\ pc' = "tconnect" /\ UNCHANGED exc
       \/ \E e \in {"ssh", "other"} : Raise(e) /\ UNCHANGED transport
    /\ UNCHANGED <<inputs, loop, hist, fs, ipc, sftp, exit_req, exit_status,
                   current_temp_file_path>>

(* main, line 278: transport.connect(username, password) *)
TConnect ==
    /\ pc = "tconnect"
    /\ \/ transport' = "active" /\ pc' = "mkSftp" /\ UNCHANGED exc
       \/ \E e \in {"auth", "ssh"} :
             /\ Raise(e)
             /\ transport' \in {"active", "dead"}
    /\ UNCHANGED <<inputs, loop, hist, fs, ipc, sftp, exit_req, exit_status,
                   current_temp_file_path>>

(* main, line 279: paramiko.SFTPClient.from_transport(transport) *)
MkSftp ==
    /\ pc = "mkSftp"
    /\ \/ sftp' = "open" /\ pc' = "download_data" /\ UNCHANGED exc
       \/ Raise("ssh") /\ UNCHANGED sftp
    /\ UNCHANGED <<inputs, loop, hist, fs, ipc, transport, exit_req,
                   exit_status, current_temp_file_path>>

----------------------------------------------------------------------------
(* download_data *)

(* lines 130-134: entry *)
DownloadStart ==
    /\ pc = "download_data"
    /\ IF time_points = <<>>
       THEN pc' = "finally" /\ returned' = TRUE /\ UNCHANGED ti
       ELSE pc' = "forTime" /\ ti' = 1 /\ UNCHANGED returned
    /\ UNCHANGED <<inputs, session, fs, exc, ipc, exit_req, exit_status,
                   current_temp_file_path, time_points, files_in_dir, fi,
                   gets, failed, faults, deleted, unlisted, overwrote>>

(* lines 136-146 and 245: the loop over time points, and the return *)
ForTime ==
    /\ pc = "forTime"
    /\ IF ti > Len(time_points)
       THEN pc' = "finally" /\ returned' = TRUE
       ELSE pc' = "listdir" /\ UNCHANGED returned
    /\ UNCHANGED <<inputs, session, loop, fs, exc, ipc, exit_req, exit_status,
                   current_temp_file_path, gets, failed, faults, deleted, unlisted,
                   overwrote>>

(* mutant: a listing error leaves the loop over the time points *)
ListDirAborts ==
    /\ pc = "listdir"
    /\ \/ /\ files_in_dir' = remote[HourOf(time_points[ti])]
          /\ fi' = 1
          /\ pc' = "forFile"
          /\ UNCHANGED <<ti, faults, unlisted>>
       \/ /\ faults < MaxFaults
          /\ ti' = Len(time_points) + 1
          /\ pc' = "forTime"
          /\ faults' = faults + 1
          /\ unlisted' = unlisted \cup {ti}
          /\ UNCHANGED <<files_in_dir, fi>>
    /\ UNCHANGED <<inputs, session, fs, exc, ipc, exit_req, exit_status,
                   current_temp_file_path, time_points, gets, failed, deleted,
                   returned, overwrote>>

(* lines 148-155: sftp_obj.listdir(remote_dir); either error (directory not
   found, any other) is logged and continues with the next time point *)
ListDir ==
    /\ pc = "listdir"
    /\ \/ /\ files_in_dir' = remote[HourOf(time_points[ti])]
          /\ fi' = 1
          /\ pc' = "forFile"
          /\ UNCHANGED <<ti, faults, unlisted>>
       \/ /\ faults < MaxFaults
          /\ ti' = ti + 1
          /\ pc' = "forTime"
          /\ faults' = faults + 1
          /\ unlisted' = unlisted \cup {ti}
          /\ UNCHANGED <<files_in_dir, fi>>
    /\ UNCHANGED <<inputs, session, fs, exc, ipc, exit_req, exit_status,
                   current_temp_file_path, time_points, gets, failed, deleted,
                   returned, overwrote>>

(* the paths of the file the inner loop is at (lines 209-210) *)
local_file_path == FinalPathOf(time_points[ti], files_in_dir[fi])
temp_local_file_path == TempOf(local_file_path)

(* mutant: a zero-length final file is staged again *)
AlreadyStagedNonEmpty(p) == fs[p] \notin {"absent", "zero"}

(* mutant: a left-over temp file counts as staged *)
AlreadyStagedOrPartial(p) == Exists(p) \/ Exists(TempOf(p))

(* mutant: the existence check is lost, every match is transferred again *)
AlreadyStagedNever(p) == FALSE

(* line 214: os.path.exists(local_file_path) *)
AlreadyStaged(p) == Exists(p)

(* lines 158-218: next listed name; filter; skip what is already staged *)
ForFile ==
    /\ pc = "forFile"
    /\ IF fi > Len(files_in_dir)
       THEN pc' = "forTime" /\ ti' = ti + 1 /\ UNCHANGED fi
       ELSE IF /\ Matches(files_in_dir[fi], time_points[ti], target_bands)
               /\ ~AlreadyStaged(local_file_path)
            THEN pc' = "setTemp" /\ UNCHANGED <<ti, fi>>
            ELSE pc' = "forFile" /\ fi' = fi + 1 /\ UNCHANGED ti
    /\ UNCHANGED <<inputs, session, hist, fs, exc, ipc, exit_req, exit_status,
                   current_temp_file_path, time_points, files_in_dir>>

(* mutant: the final path is registered instead of the temp path *)
SetTempFinal ==
    /\ pc = "setTemp"
    /\ current_temp_file_path' = Some(local_file_path)
    /\ pc' = "get"
    /\ UNCHANGED <<inputs, session, loop, hist, fs, exc, ipc, exit_req,
                   exit_status>>

(* line 222: the in-flight register is set *)
SetTemp ==
    /\ pc = "setTemp"
    /\ current_temp_file_path' = Some(temp_local_file_path)
    /\ pc' = "get"
    /\ UNCHANGED <<inputs, session, loop, hist, fs, exc, ipc, exit_req,
                   exit_status>>

(* mutant: the transfer writes straight to the final path *)
TransferTargetFinal(p) == p

(* line 223: the local path sftp_obj.get writes to *)
TransferTarget(p) == TempOf(p)

(* mutant: the transfer is started in the background and the loop goes on *)
GetOpenDetached ==
    /\ pc = "get"
    /\ gets' = gets + 1
    /\ overwrote' = overwrote \cup
          { q \in {TransferTarget(local_file_path)} : Exists(q) }
    /\ fs' = [fs EXCEPT ![TransferTarget(local_file_path)] = "partial"]
    /\ fi' = fi + 1
    /\ pc' = "forFile"
    /\ UNCHANGED <<inputs, session, exc, ipc, exit_req, exit_status,
                   current_temp_file_path, time_points, ti, files_in_dir,
                   failed, faults, deleted, returned, unlisted>>

(* line 223, first part: get opens (truncates) the local file, or fails
   before touching it *)
GetOpen ==
    /\ pc = "get"
    /\ gets' = gets + 1
    /\ overwrote' = overwrote \cup
          { q \in {TransferTarget(local_file_path)} : Exists(q) }
    /\ \/ /\ fs' = [fs EXCEPT ![TransferTarget(local_file_path)] = "partial"]
          /\ pc' = "getting"
          /\ UNCHANGED <<failed, faults>>
       \/ /\ faults < MaxFaults
          /\ faults' = faults + 1
          /\ pc' = "except"
          /\ failed' = failed \cup {local_file_path}
          /\ UNCHANGED fs
    /\ UNCHANGED <<inputs, session, loop, exc, ipc, exit_req, exit_status,
                   current_temp_file_path, deleted, returned, unlisted>>

(* line 223, second part: the transfer completes, or raises part-way *)
GetFinish ==
    /\ pc = "getting"
    /\ \/ /\ fs' = [fs EXCEPT ![TransferTarget(local_file_path)] = "full"]
          /\ pc' = "rename"
          /\ UNCHANGED <<failed, faults>>
       \/ /\ faults < MaxFaults
          /\ faults' = faults + 1
          /\ pc' = "except"
          /\ failed' = failed \cup {local_file_path}
          /\ UNCHANGED fs
    /\ UNCHANGED <<inputs, session, loop, exc, ipc, exit_req, exit_status,
                   current_temp_file_path, gets, deleted, returned, unlisted,
                   overwrote>>

(* line 224: os.rename(temp_local_file_path, local_file_path) *)
Rename ==
    /\ pc = "rename"
    /\ IF Exists(temp_local_file_path)
       THEN /\ fs' = [fs EXCEPT ![local_file_path] = fs[temp_local_file_path],
                                ![temp_local_file_path] = "absent"]
            /\ pc' = "clear"
            /\ UNCHANGED faults
       ELSE /\ pc' = "except"
            /\ faults' = faults + 1
            /\ UNCHANGED fs
    /\ UNCHANGED <<inputs, session, loop, exc, ipc, exit_req, exit_status,
                   current_temp_file_path, gets, failed, deleted, returned,
                   unlisted, overwrote>>

(* mutant: a successful transfer leaves the register set *)
ClearKeepsRegister ==
    /\ pc = "clear"
    /\ fi' = fi + 1
    /\ pc' = "forFile"
    /\ UNCHANGED <<inputs, session, hist, fs, exc, ipc, exit_req, exit_status,
                   current_temp_file_path, time_points, ti, files_in_dir>>

(* lines 225-226: success; the register is cleared, next file *)
Clear ==
    /\ pc = "clear"
    /\ current_temp_file_path' = Nil
    /\ fi' = fi + 1
    /\ pc' = "forFile"
    /\ UNCHANGED <<inputs, session, hist, fs, exc, ipc, exit_req, exit_status,
                   time_points, ti, files_in_dir>>

(* mutant: the handler logs the failure and leaves the partial file *)
ExceptNoCleanup ==
    /\ pc = "except"
    /\ pc' = "exceptClear"
    /\ UNCHANGED <<inputs, session, loop, hist, fs, exc, ipc, exit_req,
                   exit_status, current_temp_file_path>>

(* lines 228-235: except Exception; the partial file is removed, an OSError
   of os.remove is logged only *)
Except ==
    /\ pc = "except"
    /\ IF Exists(temp_local_file_path)
       THEN \/ /\ fs' = [fs EXCEPT ![temp_local_file_path] = "absent"]
               /\ UNCHANGED faults
            \/ /\ faults < MaxFaults
               /\ faults' = faults + 1
               /\ UNCHANGED fs
       ELSE UNCHANGED <<fs, faults>>
    /\ pc' = "exceptClear"
    /\ UNCHANGED <<inputs, session, loop, exc, ipc, exit_req, exit_status,
                   current_temp_file_path, gets, failed, deleted, returned,
                   unlisted, overwrote>>

(* line 236: the register is cleared, next file *)
ExceptClear ==
    /\ pc = "exceptClear"
    /\ current_temp_file_path' = Nil
    /\ fi' = fi + 1
    /\ pc' = "forFile"
    /\ UNCHANGED <<inputs, session, hist, fs, exc, ipc, exit_req, exit_status,
                   time_points, ti, files_in_dir>>

----------------------------------------------------------------------------
(* main: the handlers of the try block, the finally clause, the exit *)

(* the positions inside main's try block (lines 276-283) *)
TryPcs == {"mkTransport", "tconnect", "mkSftp", "download_data", "forTime",
           "listdir", "forFile", "setTemp", "get", "getting", "rename",
           "clear", "except", "exceptClear"}

(* the positions between line 222 and the register's clearing (226 / 236) *)
InFlightPcs == {"get", "getting", "rename", "clear", "except", "exceptClear"}

(* KeyboardInterrupt is no Exception: download_data's handlers let it pass,
   and it reaches main from any position of the try block.  An interrupt
   inside transport.connect may leave the transport started. *)
Interrupt ==
    /\ pc \in TryPcs
    /\ ipc' = pc
    /\ Raise("kbd")
    /\ IF pc = "tconnect"
       THEN transport' \in {transport, "active"}
       ELSE UNCHANGED transport
    /\ UNCHANGED <<inputs, loop, hist, fs, sftp, exit_req, exit_status,
                   current_temp_file_path>>

(* lines 285-291 and 305-306: the error is logged *)
ErrHandler ==
    /\ pc = "handler"
    /\ exc \in {"auth", "ssh", "other"}
    /\ pc' = "finally"
    /\ UNCHANGED <<inputs, session, loop, hist, fs, exc, ipc, exit_req,
                   exit_status, current_temp_file_path>>

(* line 304: sys.exit(1) *)
InterruptExit == 1

(* lines 292-304: the registered partial download is removed, sys.exit(1) *)
KbdHandler ==
    /\ pc = "handler"
    /\ exc = "kbd"
    /\ IF current_temp_file_path # Nil /\ Exists(Val(current_temp_file_path))
       THEN \/ /\ fs' = [fs EXCEPT ![Val(current_temp_file_path)] = "absent"]
               /\ deleted' = deleted \cup {Val(current_temp_file_path)}
            \/ UNCHANGED <<fs, deleted>>
       ELSE UNCHANGED <<fs, deleted>>
    /\ exit_req' = Some(InterruptExit)
    /\ pc' = "finally"
    /\ UNCHANGED <<inputs, session, loop, exc, ipc, exit_status,
                   current_temp_file_path, gets, failed, faults, returned,
                   unlisted, overwrote>>

(* line 318: sys.exit(0) *)
NormalExit == 0

(* mutant: the transport is closed only together with an sftp client *)
FinallySftpOnly ==
    /\ pc = "finally"
    /\ sftp' = IF sftp = "open" THEN "closed" ELSE sftp
    /\ transport' = IF sftp = "open" /\ transport = "active"
                    THEN "closed" ELSE transport
    /\ current_temp_file_path' = Nil
    /\ exit_status' = IF exit_req # Nil THEN exit_req ELSE Some(NormalExit)
    /\ pc' = "exited"
    /\ UNCHANGED <<inputs, loop, hist, fs, exc, ipc, exit_req>>

(* lines 307-318: the session is closed, the register cleared; the process
   exits with the status of a pending sys.exit, else with line 318's 0 *)
Finally ==
    /\ pc = "finally"
    /\ sftp' = IF sftp = "open" THEN "closed" ELSE sftp
    /\ transport' = IF transport = "active" THEN "closed" ELSE transport
    /\ current_temp_file_path' = Nil
    /\ exit_status' = IF exit_req # Nil THEN exit_req ELSE Some(NormalExit)
    /\ pc' = "exited"
    /\ UNCHANGED <<inputs, loop, hist, fs, exc, ipc, exit_req>>

(* the script is started again, after a run that went through its window,
   on the same window, bands and local tree *)
Restart ==
    /\ pc = "exited"
    /\ returned
    /\ run < MaxRuns
    /\ run' = run + 1
    /\ prevClean' = (returned /\ faults = 0)
    /\ pc' = "main"
    /\ exc' = None /\ ipc' = None
    /\ transport' = None /\ sftp' = None
    /\ exit_req' = Nil /\ exit_status' = Nil
    /\ current_temp_file_path' = Nil
    /\ time_points' = <<>> /\ ti' = 0 /\ files_in_dir' = <<>> /\ fi' = 0
    /\ gets' = 0 /\ failed' = {} /\ faults' = 0 /\ deleted' = {}
    /\ returned' = FALSE /\ unlisted' = {} /\ overwrote' = {}
    /\ UNCHANGED <<start_dt, end_dt, target_bands, remote, fs, dcvars, fnvars>>

NextDL ==
    \/ MainStart \/ MkTransport \/ TConnect \/ MkSftp
    \/ DownloadStart \/ ForTime \/ ListDir \/ ForFile \/ SetTemp
    \/ GetOpen \/ GetFinish \/ Rename \/ Clear \/ Except \/ ExceptClear
    \/ Interrupt \/ ErrHandler \/ KbdHandler \/ Finally

----------------------------------------------------------------------------
(* objective_main.py *)

(* An archive under DATA_ROOT_DIR: its directory, the (date, time) and band
   of its name, whether the name matches FILENAME_PATTERN (line 30), and what
   reading it gives: "ok" (a non-empty payload), "empty" (a valid stream of
   no bytes), "bad" (bz2 raises while reading). *)
Archive(d, s, b, m, k) == [dir |-> d, stamp |-> s, band |-> b, pat |-> m, kind |-> k]

(* the files rglob("HS_H09_*.DAT.bz2") may meet, in traversal order *)
Pool ==
    << Archive("d1", StartTime + IntervalMinutes, "03", TRUE, "ok"),
       Archive("d1", StartTime, "13", TRUE, "bad"),
       Archive("d1", StartTime, "03", TRUE, "ok"),
       Archive("d2", StartTime, "03", TRUE, "empty"),
       Archive("d2", StartTime, "01", FALSE, "ok") >>

Trees ==
    { SubSeq(Pool, w[1], w[2]) :
        w \in { v \in (1..Len(Pool)) \X (0..Len(Pool)) : v[2] - v[1] < MaxArchives } }

(* lines 119-120: output_dir / bz2_file_path.stem; the directory of the
   archive is dropped, the name loses its ".bz2" *)
OutputOf(a) == [stamp |-> a.stamp, band |-> a.band, pat |-> a.pat]

OutNames == { OutputOf(Pool[i]) : i \in 1..Len(Pool) }

(* the keys of S in increasing order; slot keys are fixed-width digit
   strings, whose lexicographic order is the numeric one *)
RECURSIVE Sorted(_)
Sorted(S) ==
    IF S = {} THEN <<>>
    ELSE LET m == CHOOSE x \in S : \A y \in S : x <= y
         IN  <<m>> \o Sorted(S \ {m})

(* scan_available_data, lines 44-61: slot key -> the matching files *)
ScanSlots(t) ==
    LET keys == { t[i].stamp : i \in { k \in 1..Len(t) : t[k].pat } }
    IN  [k \in keys |-> LET InSlot(a) == a.pat /\ a.stamp = k
                        IN  SelectSeq(t, InSlot)]

(* mutant: the keys stay in the order the traversal met them *)
RECURSIVE ScanKeysUnsorted(_)
ScanKeysUnsorted(t) ==
    IF t = <<>> THEN <<>>
    ELSE LET front == SubSeq(t, 1, Len(t) - 1)
             last == t[Len(t)]
             sofar == ScanKeysUnsorted(front)
         IN  IF last.pat /\ \A i \in 1..Len(sofar) : sofar[i] # last.stamp
             THEN Append(sofar, last.stamp)
             ELSE sofar

ScanKeys(t) == Sorted(DOMAIN ScanSlots(t))

(* prompt_user_selection, lines 85-113: any list of valid numbers, or all *)
Selections(keys) ==
    UNION { [1..n -> Range(keys)] : n \in 0..MaxSel }

NewTask == [pc |-> "queued", ret |-> "pending", found |-> "unseen", touched |-> FALSE]

Idx == 1..Len(bz2_files)
Out(i) == OutputOf(bz2_files[i])
Running == { i \in Idx : tasks[i].pc \notin {"queued", "done"} }
AllDone == \A i \in Idx : tasks[i].pc = "done"

InitDC ==
    /\ tree \in Trees
    /\ \E S \in SUBSET { OutputOf(tree[i]) : i \in 1..Len(tree) } :
          /\ Cardinality(S) <= MaxPre
          /\ \E c \in [S -> {"zero", "old"}] :
                dfs = [o \in OutNames |-> IF o \in S THEN c[o] ELSE "absent"]
    /\ max_workers \in 1..MaxWorkers
    /\ rpc = "scan"
    /\ available_slots = <<>>
    /\ slot_keys = <<>>
    /\ selected_slots = <<>>
    /\ si = 0
    /\ bz2_files = <<>>
    /\ tasks = <<>>
    /\ results = <<>>
    /\ successful_files = {}

(* run, lines 265-268 *)
Scan ==
    /\ rpc = "scan"
    /\ available_slots' = ScanSlots(tree)
    /\ slot_keys' = ScanKeys(tree)
    /\ rpc' = IF DOMAIN ScanSlots(tree) = {} THEN "done" ELSE "select"
    /\ UNCHANGED <<dlvars, tree, dfs, max_workers, selected_slots, si,
                   bz2_files, tasks, results, successful_files>>

(* run, lines 270-273 *)
Select ==
    /\ rpc = "select"
    /\ \E sel \in Selections(slot_keys) :
          /\ selected_slots' = sel
          /\ IF sel = <<>> THEN rpc' = "done" /\ si' = si
                           ELSE rpc' = "slot" /\ si' = 1
    /\ UNCHANGED <<dlvars, tree, dfs, max_workers, available_slots, slot_keys,
                   bz2_files, tasks, results, successful_files>>

(* run, lines 275-281, and decompress_files_multithreaded, lines 148-159:
   every file of the slot is submitted to a fresh executor *)
Submit ==
    /\ rpc = "slot"
    /\ IF si > Len(selected_slots)
       THEN /\ rpc' = "done"
            /\ UNCHANGED <<bz2_files, tasks, results>>
       ELSE /\ bz2_files' = available_slots[selected_slots[si]]
            /\ tasks' = [i \in 1..Len(bz2_files') |-> NewTask]
            /\ results' = <<>>
            /\ rpc' = "pool"
    /\ UNCHANGED <<dlvars, tree, dfs, max_workers, available_slots, slot_keys,
                   selected_slots, si, successful_files>>

(* what every step of a task leaves alone *)
TaskFrame ==
    UNCHANGED <<dlvars, tree, max_workers, rpc, available_slots, slot_keys,
                selected_slots, si, bz2_files, results, successful_files>>

Goto(i, to) == tasks' = [tasks EXCEPT ![i].pc = to]

Finish(i, r) == tasks' = [tasks EXCEPT ![i].pc = "done", ![i].ret = r]

NonEmpty(c) == c \in {"old", "data", "part"}

(* mutant: every submitted call gets a thread of its own *)
StartUnbounded(i) ==
    /\ tasks[i].pc = "queued"
    /\ \A j \in 1..(i - 1) : tasks[j].pc # "queued"
    /\ Goto(i, "exists")
    /\ UNCHANGED dfs
    /\ TaskFrame

(* ThreadPoolExecutor(max_workers): a free worker takes the oldest queued
   call *)
Start(i) ==
    /\ tasks[i].pc = "queued"
    /\ \A j \in 1..(i - 1) : tasks[j].pc # "queued"
    /\ Cardinality(Running) < max_workers
    /\ Goto(i, "exists")
    /\ UNCHANGED dfs
    /\ TaskFrame

(* decompress_bz2, line 122: output_path.exists() *)
ExistsCheck(i) ==
    /\ tasks[i].pc = "exists"
    /\ IF dfs[Out(i)] # "absent"
       THEN Goto(i, "stat")
       ELSE tasks' = [tasks EXCEPT ![i].pc = "open", ![i].found = "absent"]
    /\ UNCHANGED dfs
    /\ TaskFrame

(* mutant: the size test is lost, an existing output is always redone *)
StatRedo(i) ==
    /\ tasks[i].pc = "stat"
    /\ IF dfs[Out(i)] = "absent"
       THEN Goto(i, "hexists")
       ELSE tasks' = [tasks EXCEPT ![i].pc = "unlink",
                        ![i].found = IF NonEmpty(dfs[Out(i)]) THEN "nonempty" ELSE "zero"]
    /\ UNCHANGED dfs
    /\ TaskFrame

(* lines 123-126: stat().st_size > 0 returns the existing output; stat of a
   file removed since line 122 raises FileNotFoundError (an OSError) *)
Stat(i) ==
    /\ tasks[i].pc = "stat"
    /\ IF dfs[Out(i)] = "absent"
       THEN Goto(i, "hexists")
       ELSE IF NonEmpty(dfs[Out(i)])
            THEN tasks' = [tasks EXCEPT ![i].pc = "done", ![i].ret = "path",
                                        ![i].found = "nonempty"]
            ELSE tasks' = [tasks EXCEPT ![i].pc = "unlink", ![i].found = "zero"]
    /\ UNCHANGED dfs
    /\ TaskFrame

(* line 127: output_path.unlink() *)
Unlink(i) ==
    /\ tasks[i].pc = "unlink"
    /\ IF dfs[Out(i)] = "absent"
       THEN Goto(i, "hexists") /\ UNCHANGED dfs
       ELSE /\ dfs' = [dfs EXCEPT ![Out(i)] = "absent"]
            /\ tasks' = [tasks EXCEPT ![i].pc = "open", ![i].touched = TRUE]
    /\ TaskFrame

(* lines 129-130: bz2.open, and open(output_path, "wb") creates or truncates
   the output *)
Open(i) ==
    /\ tasks[i].pc = "open"
    /\ dfs' = [dfs EXCEPT ![Out(i)] = "zero"]
    /\ tasks' = [tasks EXCEPT ![i].pc = "copy", ![i].touched = TRUE]
    /\ TaskFrame

(* what the bytes copied so far leave at a path; a file unlinked by another
   task meanwhile stays absent *)
Written(o, c) == IF dfs[o] = "absent" THEN dfs ELSE [dfs EXCEPT ![o] = c]

(* lines 131-132: shutil.copyfileobj, return output_path *)
Copy(i) ==
    /\ tasks[i].pc = "copy"
    /\ \/ /\ bz2_files[i].kind = "ok"
          /\ dfs' = Written(Out(i), "data")
          /\ Finish(i, "path")
       \/ /\ bz2_files[i].kind = "empty"
          /\ UNCHANGED dfs
          /\ Finish(i, "path")
       \/ /\ bz2_files[i].kind = "bad"
          /\ \E c \in {"zero", "part"} : dfs' = Written(Out(i), c)
          /\ Goto(i, "hexists")
    /\ TaskFrame

(* lines 133-135 and 138-140: the error is logged, output_path.exists() *)
HExists(i) ==
    /\ tasks[i].pc = "hexists"
    /\ IF dfs[Out(i)] # "absent"
       THEN Goto(i, "hunlink")
       ELSE Finish(i, "None")
    /\ UNCHANGED dfs
    /\ TaskFrame

(* lines 136-137 and 141-142: output_path.unlink(), return None; an unlink
   of a file removed since the test raises out of decompress_bz2 *)
HUnlink(i) ==
    /\ tasks[i].pc = "hunlink"
    /\ IF dfs[Out(i)] = "absent"
       THEN Finish(i, "raised") /\ UNCHANGED dfs
       ELSE /\ dfs' = [dfs EXCEPT ![Out(i)] = "absent"]
            /\ Finish(i, "None")
    /\ TaskFrame

(* the result recorded for a finished call (lines 163-165, 173-179) *)
ResultOf(i) == IF tasks[i].ret = "path" THEN Some(Out(i)) ELSE Nil

(* lines 161-179: as_completed hands over a finished future; its result, or
   None for an exception, is stored under the archive path *)
Collect(i) ==
    /\ rpc = "pool"
    /\ tasks[i].pc = "done"
    /\ bz2_files[i] \notin DOMAIN results
    /\ results' = [a \in DOMAIN results \cup {bz2_files[i]} |->
                     IF a = bz2_files[i] THEN ResultOf(i) ELSE results[a]]
    /\ UNCHANGED <<dlvars, tree, dfs, max_workers, rpc, available_slots,
                   slot_keys, selected_slots, si, bz2_files, tasks,
                   successful_files>>

(* the futures as_completed has still to hand over *)
Uncollected == { i \in Idx : bz2_files[i] \notin DOMAIN results }

(* mutant: an exception of one call leaves the loop and the function *)
PoolMayReturnOnFailure ==
    \/ Uncollected = {} /\ AllDone
    \/ \E a \in DOMAIN results : results[a] = Nil

(* mutant: the function returns from inside the loop, after the first result,
   and the executor is not waited for *)
PoolMayReturnEarly == results # <<>>

(* lines 155-161: the loop over as_completed ends, and the with block is
   left, only when every future is done *)
PoolMayReturn == Uncollected = {} /\ AllDone

(* lines 181-185 and run, line 283: the results are returned, the successful
   ones are kept *)
PoolReturn ==
    /\ rpc = "pool"
    /\ PoolMayReturn
    /\ successful_files' = { Val(results[a]) :
                               a \in { b \in DOMAIN results : results[b] # Nil } }
    /\ rpc' = "composite"
    /\ UNCHANGED <<dlvars, tree, dfs, max_workers, available_slots, slot_keys,
                   selected_slots, si, bz2_files, tasks, results>>

(* run, line 285: process_true_data(successful_files, OUTPUT_DIR); next slot *)
Composite ==
    /\ rpc = "composite"
    /\ si' = si + 1
    /\ rpc' = "slot"
    /\ UNCHANGED <<dlvars, tree, dfs, max_workers, available_slots, slot_keys,
                   selected_slots, bz2_files, tasks, results, successful_files>>

NextDC ==
    \/ Scan \/ Select \/ Submit \/ PoolReturn \/ Composite
    \/ \E i \in Idx : Start(i)
    \/ \E i \in Idx : ExistsCheck(i)
    \/ \E i \in Idx : Stat(i)
    \/ \E i \in Idx : Unlink(i)
    \/ \E i \in Idx : Open(i)
    \/ \E i \in Idx : Copy(i)
    \/ \E i \in Idx : HExists(i)
    \/ \E i \in Idx : HUnlink(i)
    \/ \E i \in Idx : Collect(i)

----------------------------------------------------------------------------
(* download.py: one call of generate_time_range, statement by statement *)

(* the list is kept in memory: a call cannot hold more points than this, which
   is more than any call of the model with a positive interval produces *)
MaxPoints == GenMaxEnd + 2

InitRange ==
    /\ g_start_time \in 0..GenMaxStart
    /\ g_end_time \in 0..GenMaxEnd
    /\ g_interval_minutes \in (0 - GenMaxInterval)..GenMaxInterval
    /\ g_pc = "call"
    /\ g_current_time = 0
    /\ g_time_range = <<>>

(* mutant: the loop stops before end_time *)
LoopTestExclusive(c, e) == c < e

(* line 94: while current_time <= end_time *)
LoopTest(c, e) == c <= e

(* lines 86-92 *)
GenEnter ==
    /\ g_pc = "call"
    /\ IF g_start_time > g_end_time
       THEN g_pc' = "returned" /\ UNCHANGED g_current_time
       ELSE g_pc' = "loop" /\ g_current_time' = g_start_time
    /\ g_time_range' = <<>>
    /\ UNCHANGED <<g_start_time, g_end_time, g_interval_minutes, fvars,
                   mainvars, dcvars>>

(* lines 94-96: one iteration *)
GenLoop ==
    /\ g_pc = "loop"
    /\ LoopTest(g_current_time, g_end_time)
    /\ Len(g_time_range) < MaxPoints
    /\ g_time_range' = Append(g_time_range, g_current_time)
    /\ g_current_time' = g_current_time + g_interval_minutes
    /\ UNCHANGED <<g_start_time, g_end_time, g_interval_minutes, g_pc, fvars,
                   mainvars, dcvars>>

(* lines 94 and 98-99: the loop is left, time_range is returned *)
GenReturn ==
    /\ g_pc = "loop"
    /\ ~LoopTest(g_current_time, g_end_time)
    /\ g_pc' = "returned"
    /\ UNCHANGED <<g_start_time, g_end_time, g_interval_minutes,
                   g_current_time, g_time_range, fvars,
                   mainvars, dcvars>>

NextRange == GenEnter \/ GenLoop \/ GenReturn

IdleRange ==
    /\ g_start_time = 0
    /\ g_end_time = 0
    /\ g_interval_minutes = IntervalMinutes
    /\ g_pc = "call"
    /\ g_current_time = 0
    /\ g_time_range = <<>>

----------------------------------------------------------------------------
(* download.py: the filter of download_data (lines 159-204) on one name.   *)
(* A Python str is a sequence of one-character strings; the operators below *)
(* are the str methods the code calls.                                      *)

Digits == {"0", "1", "2", "3", "4", "5", "6", "7", "8", "9"}
DigitChar == << "0", "1", "2", "3", "4", "5", "6", "7", "8", "9" >>
UpperCase == << "A", "B", "C", "D", "E", "F", "G", "H", "I", "J", "K", "L", "M",
               "N", "O", "P", "Q", "R", "S", "T", "U", "V", "W", "X", "Y", "Z" >>
LowerCase == << "a", "b", "c", "d", "e", "f", "g", "h", "i", "j", "k", "l", "m",
               "n", "o", "p", "q", "r", "s", "t", "u", "v", "w", "x", "y", "z" >>

(* str.startswith, str.endswith *)
StartsWith(str, prefix) ==
    Len(prefix) <= Len(str) /\ SubSeq(str, 1, Len(prefix)) = prefix

EndsWith(str, suffix) ==
    /\ Len(suffix) <= Len(str)
    /\ SubSeq(str, Len(str) - Len(suffix) + 1, Len(str)) = suffix

(* str.find, counted from 1; 0 when sub does not occur *)
Find(str, sub) ==
    LET hits == { i \in 1..(Len(str) - Len(sub) + 1) :
                    SubSeq(str, i, i + Len(sub) - 1) = sub }
    IN  IF hits = {} THEN 0 ELSE CHOOSE i \in hits : \A j \in hits : i <= j

(* sub in str *)
Contains(str, sub) == Find(str, sub) # 0

(* str.split(sep) *)
RECURSIVE Split(_, _)
Split(str, sep) ==
    LET i == Find(str, sep)
    IN  IF i = 0 THEN <<str>>
        ELSE <<SubSeq(str, 1, i - 1)>>
                \o Split(SubSeq(str, i + Len(sep), Len(str)), sep)

(* str.isdigit *)
IsDigit(str) == str # <<>> /\ \A i \in 1..Len(str) : str[i] \in Digits

(* str.lower *)
Lower(str) ==
    [i \in 1..Len(str) |->
        IF \E k \in 1..Len(UpperCase) : UpperCase[k] = str[i]
        THEN LowerCase[CHOOSE k \in 1..Len(UpperCase) : UpperCase[k] = str[i]]
        ELSE str[i]]

(* str.zfill(width) of a string without sign *)
ZFill(str, width) ==
    IF Len(str) >= width THEN str
    ELSE [i \in 1..(width - Len(str)) |-> "0"] \o str

(* str[k:] and str[-n:] *)
SliceFrom(str, k) == SubSeq(str, k + 1, Len(str))
SliceLast(str, n) == SubSeq(str, IF Len(str) > n THEN Len(str) - n + 1 ELSE 1, Len(str))

(* "%02d" of strftime *)
TwoDigits(n) == << DigitChar[(n \div 10) + 1], DigitChar[(n % 10) + 1] >>

(* the day the scanned time points are on; a time point is a minute of it *)
ScanDay == << "2", "0", "2", "3", "0", "6", "1", "5" >>

(* time_dt.strftime("%Y%m%d%H%M"), and detail_time['minute'] *)
Strftime(t) == ScanDay \o TwoDigits(t \div 60) \o TwoDigits(t % 60)
target_minute(t) == TwoDigits(t % 60)

(* line 159 *)
Admitted(name) ==
    /\ EndsWith(name, << ".", "D", "A", "T", ".", "b", "z", "2" >>)
    /\ Contains(name, << "_", "F", "L", "D", "K", "_" >>)

(* lines 169-184: the band one token gives, "" when it gives none *)
PartBand(part) ==
    IF StartsWith(part, <<"B">>) /\ IsDigit(SliceFrom(part, 1)) THEN part
    ELSE IF Contains(Lower(part), << ".", "f", "l", "d", "k", "." >>)
    THEN LET sub_parts == Split(part, <<".">>)
         IN  IF Len(sub_parts) > 1 /\ IsDigit(sub_parts[Len(sub_parts)])
             THEN <<"B">> \o ZFill(sub_parts[Len(sub_parts)], 2)
             ELSE <<>>
    ELSE IF Contains(part, << "F", "L", "D", "K" >>)
    THEN LET sub_parts == Split(part, <<".">>)
             last == sub_parts[Len(sub_parts)]
         IN  IF Len(sub_parts) > 1 /\ IsDigit(last)
             THEN <<"B">> \o ZFill(last, 2)
             ELSE IF /\ Len(sub_parts) > 1 /\ StartsWith(last, <<"B">>)
                     /\ IsDigit(SliceFrom(last, 1))
                  THEN last
                  ELSE <<>>
    ELSE <<>>

(* lines 168-184: for part in parts ... break *)
RECURSIVE LoopBand(_)
LoopBand(parts) ==
    IF parts = <<>> THEN <<>>
    ELSE IF PartBand(Head(parts)) # <<>> THEN PartBand(Head(parts))
    ELSE LoopBand(Tail(parts))

(* lines 186-192: filename.split('FLDK.')[1].split('.')[0] *)
FallbackBand(name) ==
    LET pieces == Split(name, << "F", "L", "D", "K", "." >>)
    IN  IF Len(pieces) < 2 THEN <<>>
        ELSE LET fldk_part == Split(pieces[2], <<".">>)[1]
             IN  IF IsDigit(fldk_part) THEN <<"B">> \o ZFill(fldk_part, 2)
                 ELSE <<>>

(* lines 167-192: file_band_part *)
ExtractBand(name) ==
    LET file_band_part == LoopBand(Split(name, <<"_">>))
    IN  IF file_band_part # <<>> THEN file_band_part ELSE FallbackBand(name)

(* mutant: the minute fallback is lost *)
TimeRejectedStrict(parts, t) == parts[3] \o parts[4] # Strftime(t)

(* lines 199-201 *)
TimeRejected(parts, t) ==
    IF parts[3] \o parts[4] # Strftime(t)
    THEN Len(parts) > 3 /\ SliceLast(parts[4], 2) # target_minute(t)
    ELSE FALSE

Outcome(o, b, ts) == [outcome |-> o, band |-> b, stamp |-> ts]

(* lines 159-204: what the loop body does with one listed name *)
FilterName(name, t, bs) ==
    IF ~Admitted(name) THEN Outcome("not admitted", <<>>, <<>>)
    ELSE LET parts == Split(name, <<"_">>)
         IN  IF Len(parts) < 5 THEN Outcome("few tokens", <<>>, <<>>)
             ELSE LET file_timestamp_str == parts[3] \o parts[4]
                      file_band_part == ExtractBand(name)
                      file_band_check == SliceFrom(file_band_part, 1)
                  IN  IF file_band_part = <<>>
                      THEN Outcome("no band", <<>>, file_timestamp_str)
                      ELSE IF TimeRejected(parts, t)
                      THEN Outcome("other time", file_band_check, file_timestamp_str)
                      ELSE IF file_band_check \notin bs
                      THEN Outcome("other band", file_band_check, file_timestamp_str)
                      ELSE Outcome("matched", file_band_check, file_timestamp_str)

(* the names listed *)
(* HS_H09_20230615_0310_B03_FLDK_R05_S0110.DAT.bz2 : a name as the archive holds them *)
NameFull ==
    << "H", "S", "_", "H", "0", "9", "_", "2", "0", "2", "3", "0",
       "6", "1", "5", "_", "0", "3", "1", "0", "_", "B", "0", "3",
       "_", "F", "L", "D", "K", "_", "R", "0", "5", "_", "S", "0",
       "1", "1", "0", ".", "D", "A", "T", ".", "b", "z", "2" >>

(* HS_H09_20230615_0310_B03_FLDK.DAT.bz2 : the marker followed by a dot *)
NameShortMarker ==
    << "H", "S", "_", "H", "0", "9", "_", "2", "0", "2", "3", "0",
       "6", "1", "5", "_", "0", "3", "1", "0", "_", "B", "0", "3",
       "_", "F", "L", "D", "K", ".", "D", "A", "T", ".", "b", "z",
       "2" >>

(* HS_H09_20230615_0310_FLDK.05_B03_FLDK_R05.DAT.bz2 : a marker token with a numeric segment before the B token *)
NameMarkerFirst ==
    << "H", "S", "_", "H", "0", "9", "_", "2", "0", "2", "3", "0",
       "6", "1", "5", "_", "0", "3", "1", "0", "_", "F", "L", "D",
       "K", ".", "0", "5", "_", "B", "0", "3", "_", "F", "L", "D",
       "K", "_", "R", "0", "5", ".", "D", "A", "T", ".", "b", "z",
       "2" >>

(* HS_H09_20230615_0410_B03_FLDK_R05_S0110.DAT.bz2 : same minute, another hour *)
NameNextHour ==
    << "H", "S", "_", "H", "0", "9", "_", "2", "0", "2", "3", "0",
       "6", "1", "5", "_", "0", "4", "1", "0", "_", "B", "0", "3",
       "_", "F", "L", "D", "K", "_", "R", "0", "5", "_", "S", "0",
       "1", "1", "0", ".", "D", "A", "T", ".", "b", "z", "2" >>

(* HS_H09_20230615_0320_B03_FLDK_R05_S0110.DAT.bz2 : another minute *)
NameNextSlot ==
    << "H", "S", "_", "H", "0", "9", "_", "2", "0", "2", "3", "0",
       "6", "1", "5", "_", "0", "3", "2", "0", "_", "B", "0", "3",
       "_", "F", "L", "D", "K", "_", "R", "0", "5", "_", "S", "0",
       "1", "1", "0", ".", "D", "A", "T", ".", "b", "z", "2" >>

(* HS_H09_20230615_0310_B05_FLDK_R05_S0110.DAT.bz2 : band 05 *)
NameBand05 ==
    << "H", "S", "_", "H", "0", "9", "_", "2", "0", "2", "3", "0",
       "6", "1", "5", "_", "0", "3", "1", "0", "_", "B", "0", "5",
       "_", "F", "L", "D", "K", "_", "R", "0", "5", "_", "S", "0",
       "1", "1", "0", ".", "D", "A", "T", ".", "b", "z", "2" >>

(* HS_H09_20230615_0310_B03_FLDK_R05_S0110.DAT : not compressed *)
NameNoBz2 ==
    << "H", "S", "_", "H", "0", "9", "_", "2", "0", "2", "3", "0",
       "6", "1", "5", "_", "0", "3", "1", "0", "_", "B", "0", "3",
       "_", "F", "L", "D", "K", "_", "R", "0", "5", "_", "S", "0",
       "1", "1", "0", ".", "D", "A", "T" >>

(* HS_H09_20230615_0310_R05_FLDK_S0110.DAT.bz2 : no band anywhere *)
NameNoBand ==
    << "H", "S", "_", "H", "0", "9", "_", "2", "0", "2", "3", "0",
       "6", "1", "5", "_", "0", "3", "1", "0", "_", "R", "0", "5",
       "_", "F", "L", "D", "K", "_", "S", "0", "1", "1", "0", ".",
       "D", "A", "T", ".", "b", "z", "2" >>

(* HS_H09_20230615_0310_X_FLDK_R.FLDK.3.DAT.bz2 : band only after a later FLDK. *)
NameFallback ==
    << "H", "S", "_", "H", "0", "9", "_", "2", "0", "2", "3", "0",
       "6", "1", "5", "_", "0", "3", "1", "0", "_", "X", "_", "F",
       "L", "D", "K", "_", "R", ".", "F", "L", "D", "K", ".", "3",
       ".", "D", "A", "T", ".", "b", "z", "2" >>

(* HS_FLDK_B03.DAT.bz2 : fewer than five tokens *)
NameFewTokens ==
    << "H", "S", "_", "F", "L", "D", "K", "_", "B", "0", "3", ".",
       "D", "A", "T", ".", "b", "z", "2" >>

(* HS_H09_20230615_0310_FLDK.B13_FLDK_R05_S0110.DAT.bz2 : marker token ending in a B segment *)
NameMarkerB ==
    << "H", "S", "_", "H", "0", "9", "_", "2", "0", "2", "3", "0",
       "6", "1", "5", "_", "0", "3", "1", "0", "_", "F", "L", "D",
       "K", ".", "B", "1", "3", "_", "F", "L", "D", "K", "_", "R",
       "0", "5", "_", "S", "0", "1", "1", "0", ".", "D", "A", "T",
       ".", "b", "z", "2" >>

(* HS_H09_20230615_0310_a.fldk.7_FLDK_R05.DAT.bz2 : lower-case marker segment *)
NameLowerMarker ==
    << "H", "S", "_", "H", "0", "9", "_", "2", "0", "2", "3", "0",
       "6", "1", "5", "_", "0", "3", "1", "0", "_", "a", ".", "f",
       "l", "d", "k", ".", "7", "_", "F", "L", "D", "K", "_", "R",
       "0", "5", ".", "D", "A", "T", ".", "b", "z", "2" >>

Names == { NameFull,
          NameShortMarker,
          NameMarkerFirst,
          NameNextHour,
          NameNextSlot,
          NameBand05,
          NameNoBz2,
          NameNoBand,
          NameFallback,
          NameFewTokens,
          NameMarkerB,
          NameLowerMarker }

(* the time points scanned: 03:10, 03:20, 04:10 *)
ScanTimes == { 3 * 60 + 10, 3 * 60 + 20, 4 * 60 + 10 }

(* the band ids of target_bands, spelled out *)
Spelled(b) == << DigitChar[b[1] + 1], DigitChar[b[2] + 1] >>
ScanBandSets ==
    { { Spelled(b) : b \in { <<0, 1>>, <<0, 2>>, <<0, 3>>, <<0, 4>>, <<0, 8>>,
                             <<0, 7>>, <<1, 3>> } },
      { Spelled(<<0, 5>>) } }

InitFilter ==
    /\ filename \in Names
    /\ time_dt \in ScanTimes
    /\ f_target_bands \in ScanBandSets
    /\ verdict = Nil

(* one pass of the loop body over the name *)
ScanName ==
    /\ verdict = Nil
    /\ verdict' = Some(FilterName(filename, time_dt, f_target_bands))
    /\ UNCHANGED <<filename, time_dt, f_target_bands, gvars, mainvars, dcvars>>

NextFilter == ScanName

IdleFilter ==
    /\ filename = <<>>
    /\ time_dt = 0
    /\ f_target_bands = {}
    /\ verdict = Nil

----------------------------------------------------------------------------
(* The specifications *)

(* the state of the part of the system a specification leaves out *)
IdleDC ==
    /\ tree = <<>>
    /\ dfs = [o \in OutNames |-> "absent"]
    /\ max_workers = 1
    /\ rpc = "scan"
    /\ available_slots = <<>>
    /\ slot_keys = <<>>
    /\ selected_slots = <<>>
    /\ si = 0
    /\ bz2_files = <<>>
    /\ tasks = <<>>
    /\ results = <<>>
    /\ successful_files = {}

IdleDL ==
    /\ start_dt = StartTime
    /\ end_dt = StartTime
    /\ target_bands = DEFAULT_TARGET_BANDS
    /\ remote = [h \in Hours |-> <<>>]
    /\ fs = [p \in Paths |-> "absent"]
    /\ run = 1
    /\ prevClean = FALSE
    /\ FreshProcess

(* download.py: one run of the script over a local tree that may hold
   left-overs *)
Init == InitDL /\ IdleDC /\ IdleRange /\ IdleFilter

Next == NextDL

Spec == Init /\ [][Next]_vars

(* download.py: the script run repeatedly, starting from an empty local tree *)
InitRerun == InitWith(0) /\ IdleDC /\ IdleRange /\ IdleFilter

NextRerun == NextDL \/ Restart

SpecRerun == InitRerun /\ [][NextRerun]_vars

(* objective_main.py: HimawariProcessor.run *)
InitDecomp == IdleDL /\ InitDC /\ IdleRange /\ IdleFilter

NextDecomp == NextDC

SpecDecomp == InitDecomp /\ [][NextDecomp]_vars

(* download.py: one call of generate_time_range; a call that has begun goes
   on executing *)
InitRangeCall == IdleDL /\ IdleDC /\ InitRange /\ IdleFilter

SpecRange == InitRangeCall /\ [][NextRange]_vars /\ WF_vars(NextRange)

(* download.py: the loop body of download_data over one listed name *)
InitFilterCall == IdleDL /\ IdleDC /\ IdleRange /\ InitFilter

SpecFilter == InitFilterCall /\ [][NextFilter]_vars

----------------------------------------------------------------------------
(* Properties of download.py *)

FinalPaths == { p \in Paths : ~p.part }

(* the final paths of the names download_data matches over its window *)
MatchedPaths ==
    { p \in FinalPaths :
        \E t \in Range(time_points) :
            /\ p.dir = HourOf(t)
            /\ p.name \in Range(remote[p.dir])
            /\ Matches(p.name, t, target_bands) }

Done == pc = "exited"

(* C1: a final local path never holds a partially written file, also after a
   transfer error or an interrupt: what is at a final path was there before
   the run or is a completely transferred file, and no step of the transfer
   (sftp.get) changes a final path. *)
C1_FinalNeverPartial ==
    /\ [](\A p \in FinalPaths : fs[p] \in {"absent", "zero", "stale", "full"})
    /\ [][(pc \in {"get", "getting"}) =>
            (\A p \in FinalPaths : fs'[p] = fs[p])]_vars

(* a run interrupted in the middle of a transfer, after another file of the
   batch was staged *)
C1_Witness ==
    /\ Done /\ exc = "kbd" /\ ipc = "getting"
    /\ \E p \in FinalPaths : fs[p] = "full"

(* C2: when download_data returns after a batch in which exactly one transfer
   raised (and nothing else failed), every other matched file has its final
   file, the failed one has neither a final file nor a ".part" file. *)
C2_OneFailureIsolated ==
    (Done /\ returned /\ Cardinality(failed) = 1 /\ faults = 1) =>
        /\ \A p \in MatchedPaths \ failed : Exists(p)
        /\ \A p \in failed : p \in MatchedPaths /\ ~Exists(p) /\ ~Exists(TempOf(p))
        /\ Cardinality({ p \in MatchedPaths : Exists(p) })
             = Cardinality(MatchedPaths) - 1

(* a batch of at least two files, one failed part-way, a later one staged *)
C2_Witness ==
    /\ Done /\ returned /\ Cardinality(failed) = 1 /\ faults = 1
    /\ Cardinality(MatchedPaths) >= 2
    /\ \E p \in MatchedPaths : fs[p] = "full"

(* C3: in a run that follows a run which went through its whole window with
   no error, no transfer is started and no local file changes. *)
C3_SecondRunIdle ==
    /\ [](run > 1 /\ prevClean => gets = 0)
    /\ [][(run > 1 /\ prevClean) => (fs' = fs)]_vars

(* the second run went through a window with staged files *)
C3_Witness ==
    /\ run > 1 /\ prevClean /\ Done /\ returned /\ faults = 0
    /\ \E p \in MatchedPaths : fs[p] = "full"

(* C4: the interrupt handler of main removes at most one file, which is the
   ".part" path of the transfer the interrupt hit (nothing when it hit
   outside a transfer), and the interrupted process exits non-zero. *)
C4_InterruptCleanup ==
    /\ Cardinality(deleted) <= 1
    /\ \A p \in deleted :
          /\ ipc \in InFlightPcs
          /\ p = TempOf(FinalPathOf(time_points[ti], files_in_dir[fi]))
    /\ (Done /\ exc = "kbd") => (exit_status # Nil /\ Val(exit_status) # 0)

(* an interrupt during a transfer whose partial file was removed *)
C4_Witness ==
    /\ Done /\ exc = "kbd" /\ ipc = "getting"
    /\ Cardinality(deleted) = 1
    /\ Val(exit_status) = 1

(* C5: after an authentication or SSH failure the process exits non-zero. *)
C5_FatalExitsNonZero ==
    (Done /\ exc \in {"auth", "ssh"}) => Val(exit_status) # 0

(* C6: the process never exits with the session still held: the sftp client
   is not open and the transport is not active. *)
C6_SessionReleased ==
    Done => (sftp # "open" /\ transport # "active")

(* exits with a session that had been opened, by interrupt and by auth error *)
C6_Witness ==
    /\ Done /\ transport = "closed"
    /\ \/ exc = "kbd" /\ sftp = "closed"
       \/ exc = "auth" /\ sftp = None

----------------------------------------------------------------------------
(* Properties of objective_main.py *)

Returned == rpc = "composite"

(* no two files of the pool have the same output path *)
RaceFree == \A i, j \in Idx : i # j => Out(i) # Out(j)

Failures == { a \in DOMAIN results : results[a] = Nil }

(* C7: when decompress_files_multithreaded returns, results holds exactly
   one entry per submitted path, each the file's output path or None; a file
   that fails takes no other file down: in a pool with distinct outputs every
   archive that can be read is a success, so with one failure the other
   K - 1 entries are successes. *)
C7_OneEntryPerPath ==
    Returned =>
        /\ DOMAIN results = Range(bz2_files)
        /\ Cardinality(DOMAIN results) = Len(bz2_files)
        /\ \A a \in DOMAIN results : results[a] \in {Nil, Some(OutputOf(a))}
        /\ RaceFree =>
              /\ \A a \in DOMAIN results : a.kind # "bad" => results[a] # Nil
              /\ Cardinality(Failures) = 1 =>
                    Cardinality(DOMAIN results \ Failures) = Len(bz2_files) - 1

(* a pool of at least two files returned with exactly one failure *)
C7_Witness ==
    /\ Returned /\ Len(bz2_files) >= 2 /\ RaceFree
    /\ Cardinality(Failures) = 1
    /\ \E a \in Failures : a.kind = "bad"

(* C8: a call of decompress_bz2 that finds its output present and non-empty
   returns that path, has neither removed nor opened the output nor read the
   archive, and the step that finds it changes no file. *)
C8_ExistingOutputReused ==
    /\ [](\A i \in Idx : tasks[i].found = "nonempty" =>
              /\ tasks[i].pc = "done"
              /\ tasks[i].ret = "path"
              /\ ~tasks[i].touched)
    /\ [][\A i \in Idx : (tasks[i].pc = "stat" /\ tasks'[i].found = "nonempty") =>
              (dfs' = dfs)]_vars

(* the same slot decompressed twice: the second call reuses the first's output *)
C8_Witness ==
    /\ si = 2 /\ Len(selected_slots) >= 2
    /\ selected_slots[1] = selected_slots[2]
    /\ \E i \in Idx : /\ tasks[i].found = "nonempty" /\ tasks[i].pc = "done"
                      /\ dfs[Out(i)] = "data"

(* C9: when a call of decompress_bz2 has returned (and no other call of the
   pool shares its output path), the output is absent or non-empty. *)
C9_NeverZeroLength ==
    \A i \in Idx :
        (tasks[i].pc = "done" /\ \A j \in Idx : j # i => Out(j) # Out(i))
            => dfs[Out(i)] # "zero"

(* C10: while run is outside the pool (generating a composite, moving to the
   next slot, finished) no decompression task is queued or running, and the
   composite is generated from exactly the outputs the slot's calls
   returned. *)
C10_PoolAwaited ==
    /\ rpc \in {"composite", "slot", "done"} => AllDone
    /\ Returned =>
          /\ successful_files = { Out(i) : i \in { j \in Idx : tasks[j].ret = "path" } }
          /\ successful_files \subseteq
                { OutputOf(a) : a \in Range(available_slots[selected_slots[si]]) }

(* the composite of a second slot starts after a pool of several files *)
C10_Witness ==
    /\ Returned /\ si = 2 /\ Len(bz2_files) >= 2
    /\ successful_files # {}

(* C11: no two tasks of a pool that are running at the same time have the
   same output path. *)
C11_DisjointOutputs ==
    \A i, j \in Running : i # j => Out(i) # Out(j)

Reverse(t) == [i \in 1..Len(t) |-> t[Len(t) + 1 - i]]

(* the files a traversal meets that match FILENAME_PATTERN *)
Staged == { a \in Range(tree) : a.pat }

(* C15: after scan_available_data, the slot keys are the (date, time) pairs
   of the matching files; the list of a key holds each matching file of that
   date and time once and no other file; the keys are in increasing order,
   the same whatever order the traversal met the files in. *)
C15_SlotsGrouped ==
    rpc # "scan" =>
        /\ DOMAIN available_slots = { a.stamp : a \in Staged }
        /\ \A k \in DOMAIN available_slots :
              /\ Range(available_slots[k]) = { a \in Staged : a.stamp = k }
              /\ Len(available_slots[k]) = Cardinality(Range(available_slots[k]))
        /\ Range(slot_keys) = DOMAIN available_slots
        /\ \A i, j \in 1..Len(slot_keys) : i < j => slot_keys[i] < slot_keys[j]
        /\ slot_keys = ScanKeys(Reverse(tree))

(* two slots were found, the later one met first by the traversal *)
C15_Witness ==
    /\ rpc = "select" /\ Len(slot_keys) = 2
    /\ Len(tree) >= 2 /\ tree[1].pat /\ tree[2].pat
    /\ tree[1].stamp > tree[2].stamp

----------------------------------------------------------------------------
(* Properties of download.py: listing errors, bands, stale temp files *)

(* the final paths of the names listed for the k-th time point that pass the
   filter *)
MatchedAt(k) ==
    { FinalPathOf(time_points[k], f) :
        f \in { g \in Range(remote[HourOf(time_points[k])]) :
                  Matches(g, time_points[k], target_bands) } }

(* C12: a listing that raises moves download_data to the next time point and
   changes nothing else (no exception reaches main, the session and the local
   files stay as they are); the run still returns, and when listings were the
   only errors of the run, every matching file of every time point whose
   listing succeeded is staged. *)
C12_ListingFailureSkips ==
    /\ [](/\ (Done /\ exc = None /\ time_points # <<>>) =>
                (returned /\ ti = Len(time_points) + 1)
          /\ (Done /\ returned /\ faults = Cardinality(unlisted)) =>
                \A k \in 1..Len(time_points) :
                    k \notin unlisted => \A p \in MatchedAt(k) : Exists(p))
    /\ [][(pc = "listdir" /\ pc' = "forTime") =>
             (/\ ti' = ti + 1
              /\ exc' = exc /\ fs' = fs
              /\ sftp' = sftp /\ transport' = transport)]_vars

(* the first listing failed, a file of the second time point was transferred *)
C12_Witness ==
    /\ Done /\ returned /\ unlisted = {1} /\ Len(time_points) = 2
    /\ \E p \in MatchedAt(2) : fs[p] = "full"

(* C16: the file a transfer is issued for has its band in target_bands, and
   no local file written by a transfer has a band outside target_bands. *)
C16_OnlyRequestedBands ==
    /\ pc \in {"setTemp", "get", "getting", "rename"} =>
          files_in_dir[fi].band \in target_bands
    /\ \A p \in Paths : fs[p] \in {"partial", "full"} =>
          p.name.band \in target_bands

(* a listing held a file of a requested band and one of another band that
   passes every other test; the first was transferred *)
C16_Witness ==
    /\ Done /\ returned
    /\ \E p \in Paths : fs[p] = "full"
    /\ \E k \in 1..Len(time_points) :
          \E f \in Range(remote[HourOf(time_points[k])]) :
              /\ f.admit /\ f.band # "" /\ TimestampOK(f, time_points[k])
              /\ f.band \notin target_bands
              /\ \A q \in Paths : q.name = f => ~Exists(q)

(* C20: a matching file whose final path is absent is transferred although
   its temp path exists; after the transfer over an existing temp path and
   the rename, the final path holds the complete file and the temp path is
   gone. *)
C20_StalePartOverwritten ==
    /\ []((pc = "clear" /\ temp_local_file_path \in overwrote) =>
             (fs[local_file_path] = "full" /\ ~Exists(temp_local_file_path)))
    /\ [][(/\ pc = "forFile" /\ fi <= Len(files_in_dir)
           /\ Matches(files_in_dir[fi], time_points[ti], target_bands)
           /\ ~Exists(local_file_path) /\ Exists(temp_local_file_path)) =>
              (pc' \in {"setTemp", "handler"})]_vars

(* a transfer over a left-over temp file has succeeded *)
C20_Witness ==
    /\ pc = "clear" /\ temp_local_file_path \in overwrote
    /\ fs[local_file_path] = "full"

----------------------------------------------------------------------------
(* Properties of generate_time_range *)

GenReturned == g_pc = "returned"

(* C13: a call that has returned with start > end returned the empty list;
   one with start <= end (and a positive interval) returned exactly the
   points start + k * interval, k = 0 .. floor((end - start) / interval), in
   order: the first is start, none is after end, the last is end when the
   window is a multiple of the interval.  The list main computes in one step
   is the same. *)
C13_ExactPoints ==
    GenReturned =>
        /\ g_start_time > g_end_time => g_time_range = <<>>
        /\ (g_start_time <= g_end_time /\ g_interval_minutes > 0) =>
              /\ g_time_range =
                    [k \in 1..((g_end_time - g_start_time) \div g_interval_minutes + 1)
                        |-> g_start_time + (k - 1) * g_interval_minutes]
              /\ g_time_range[1] = g_start_time
              /\ \A i \in 1..Len(g_time_range) : g_time_range[i] <= g_end_time
              /\ (g_end_time - g_start_time) % g_interval_minutes = 0 =>
                    g_time_range[Len(g_time_range)] = g_end_time
              /\ g_time_range =
                    generate_time_range(g_start_time, g_end_time, g_interval_minutes)

(* a window of several intervals, end included *)
C13_Witness ==
    /\ GenReturned /\ g_interval_minutes >= 2
    /\ Len(g_time_range) >= 3
    /\ g_time_range[Len(g_time_range)] = g_end_time

(* C17: every call of generate_time_range returns: the loop is left only
   when current_time is after end_time, and every iteration moves
   current_time forward, towards that exit. *)
C17_Terminates ==
    [][(g_pc = "loop" /\ g_pc' = "loop") => (g_current_time' > g_current_time)]_vars

----------------------------------------------------------------------------
(* Properties of the filter of download_data *)

Scanned == verdict # Nil

(* the tokens of the scanned name *)
Tokens == Split(filename, <<"_">>)

(* a token of the form B<digits> *)
IsBandToken(part) == StartsWith(part, <<"B">>) /\ IsDigit(SliceFrom(part, 1))

(* C14: HS_H09_20230615_0310_B03_FLDK.DAT.bz2, scanned for 2023-06-15 03:10
   with band 03 requested, is matched with band 03 and timestamp
   202306150310. *)
C14_ExampleMatched ==
    (/\ Scanned /\ filename = NameShortMarker
     /\ time_dt = 3 * 60 + 10 /\ Spelled(<<0, 3>>) \in f_target_bands) =>
        /\ Val(verdict).outcome = "matched"
        /\ Val(verdict).band = Spelled(<<0, 3>>)
        /\ Val(verdict).stamp = Strftime(time_dt)

(* C18: for an admitted name (of at least five tokens) that has a token of
   the form B<digits>, the extracted band is the digits of such a token. *)
C18_BandTokenWins ==
    (/\ Scanned /\ Admitted(filename) /\ Len(Tokens) >= 5
     /\ \E i \in 1..Len(Tokens) : IsBandToken(Tokens[i])) =>
        \E i \in 1..Len(Tokens) :
            /\ IsBandToken(Tokens[i])
            /\ Val(verdict).band = SliceFrom(Tokens[i], 1)

StampDiffers == Tokens[3] \o Tokens[4] # Strftime(time_dt)
MinuteDiffers == SliceLast(Tokens[4], 2) # TwoDigits(time_dt % 60)

(* C19: a name that is admitted and has a band is rejected for its time
   exactly when its date and time tokens differ from the time point's
   YYYYMMDDHHMM and the last two characters of its time token differ from the
   time point's minute; when one of the two agrees and the band is requested,
   the name is matched. *)
C19_RejectsWhenBothFail ==
    (/\ Scanned /\ Admitted(filename) /\ Len(Tokens) >= 5
     /\ ExtractBand(filename) # <<>>) =>
        /\ Val(verdict).outcome = "other time" <=> (StampDiffers /\ MinuteDiffers)
        /\ (~(StampDiffers /\ MinuteDiffers)
              /\ Val(verdict).band \in f_target_bands) =>
                 Val(verdict).outcome = "matched"

(* a name of another hour is matched through its minute *)
C19_Witness ==
    /\ Scanned /\ Admitted(filename) /\ Len(Tokens) >= 5
    /\ StampDiffers /\ ~MinuteDiffers
    /\ Val(verdict).outcome = "matched"

----------------------------------------------------------------------------
(* Properties of the worker bound *)

(* C21: the calls of decompress_bz2 that are executing at the same time are
   never more than max_workers, however many files were submitted. *)
C21_WorkerBound == Cardinality(Running) <= max_workers

(* every worker is busy and a submitted file is waiting for one *)
C21_Witness ==
    /\ rpc = "pool"
    /\ Cardinality(Running) = max_workers
    /\ Len(bz2_files) > max_workers
    /\ \E i \in Idx : tasks[i].pc = "queued"

----------------------------------------------------------------------------
(* Properties of the in-flight register and of existing final files *)

(* a transfer is between line 222 and the clearing of the register, or was
   cut there by an interrupt that main is handling *)
InTransfer ==
    \/ pc \in InFlightPcs
    \/ pc \in {"handler", "finally"} /\ exc = "kbd" /\ ipc \in InFlightPcs

(* C22: current_temp_file_path is set only while a transfer is between its
   start and its success or handled failure (or main handles an interrupt
   that cut it); it then holds the ".part" path of that transfer, never a
   final path; it is empty when download_data has returned and when the
   process has exited; the interrupt handler changes no final file. *)
C22_RegisterInvariant ==
    /\ [](/\ current_temp_file_path # Nil =>
                /\ InTransfer
                /\ Val(current_temp_file_path).part
                /\ Val(current_temp_file_path) = temp_local_file_path
          /\ returned => current_temp_file_path = Nil
          /\ Done => current_temp_file_path = Nil
          /\ \A p \in deleted : p.part)
    /\ [][(pc = "handler") => (\A p \in FinalPaths : fs'[p] = fs[p])]_vars

(* an interrupt cut a transfer after another file had been staged: the
   handler removed the registered temp file and the staged file is kept *)
C22_Witness ==
    /\ pc = "finally" /\ exc = "kbd"
    /\ current_temp_file_path # Nil
    /\ Val(current_temp_file_path) \in deleted
    /\ \E p \in FinalPaths : fs[p] = "full"

(* C23: no step of a run changes a final local file that exists, whatever
   its size; a matching name whose final file exists is passed over: no
   transfer is issued for it, no local file changes, and no transfer is ever
   in progress towards an existing final file. *)
C23_ExistingFinalUntouched ==
    /\ [](pc \in {"setTemp", "get", "getting", "rename"} => ~Exists(local_file_path))
    /\ [][\A p \in FinalPaths : Exists(p) => (fs'[p] = fs[p])]_vars
    /\ [][(/\ pc = "forFile" /\ fi <= Len(files_in_dir)
           /\ Matches(files_in_dir[fi], time_points[ti], target_bands)
           /\ Exists(local_file_path)) =>
              (pc' \in {"forFile", "handler"} /\ gets' = gets /\ fs' = fs)]_vars

(* a matching name with a zero-length final file has been passed over *)
C23_Witness ==
    /\ pc = "forFile" /\ fi > 1 /\ gets = 0
    /\ Matches(files_in_dir[fi - 1], time_points[ti], target_bands)
    /\ fs[FinalPathOf(time_points[ti], files_in_dir[fi - 1])] = "zero"

----------------------------------------------------------------------------
(* Properties of the use of the remote session *)

(* the transfers of this run that have ended: renamed to their final path, or
   raised *)
Settled == Cardinality({ p \in FinalPaths : fs[p] = "full" }) + Cardinality(failed)

(* the sftp.get calls issued and not ended *)
InFlight == gets - Settled

(* C24: at most one transfer is in flight at any time; when the loop looks
   at the next name, starts the next transfer or lists the next time point,
   every transfer issued before has ended, renamed or failed, and the temp
   file of a failed one is gone unless its removal raised too. *)
C24_OneTransferAtATime ==
    /\ InFlight \in {0, 1}
    /\ pc \in {"forTime", "listdir", "forFile", "setTemp", "get"} =>
          /\ InFlight = 0
          /\ \A p \in failed : ~Exists(TempOf(p)) \/ faults >= 2

(* a second transfer is running, the first has been renamed or has failed *)
C24_Witness ==
    /\ pc = "getting" /\ gets = 2
    /\ Settled = 1 /\ InFlight = 1

====
